---------------------------- MODULE Spec2Model ----------------------------
(***************************************************************************)
(* Model of src/components/ReadmePreview.tsx: the ReadmePreview component. *)
(*                                                                         *)
(* A JavaScript string is modelled as the sequence of its characters.  A   *)
(* character is a one-character TLA+ string; a character that cannot be    *)
(* written in a TLA+ string (the backtick and every non-ASCII character)   *)
(* is named by its code point: "U+0060" is the backtick, "U+2022" the      *)
(* bullet, "U+2B50" the star, "U+26A1" the high-voltage sign and           *)
(* "U+1F91D" the handshake.  String concatenation is \o.                   *)
(***************************************************************************)
EXTENDS Naturals, Sequences, FiniteSets, TLC

VARIABLES
    elements,       \* props.elements: the host's ordered list of elements
    viewMode,       \* props.viewMode
    activeTab,      \* the tab selected in <Tabs>: "preview" or "markdown"
    copied,         \* useState(false): the "Copied!" acknowledgment
    timers,         \* number of pending setTimeout(() => setCopied(false), 1500)
    pendingWrites,  \* number of navigator.clipboard.writeText promises not settled
    emitted         \* the external effect of the last step (clipboard call, download)

vars == <<elements, viewMode, activeTab, copied, timers, pendingWrites, emitted>>

---------------------------------------------------------------------------
(* Bounds of the model. *)

MaxElems == 2      \* longest element list given to the pure functions
MaxCols == 2       \* most header columns of a table element
MaxRows == 2       \* most data rows of a table element
MaxUiElems == 2    \* longest element list the host passes in the UI specification
MaxWrites == 2     \* most clipboard writes in flight
MaxTimers == 2     \* most reset timers pending

---------------------------------------------------------------------------
(* String helpers: the JavaScript operations the templates use. *)

Min(a, b) == IF a < b THEN a ELSE b

\* Array.prototype.join(sep) over an array of strings.
RECURSIVE Join(_, _)
Join(strs, sep) ==
    IF Len(strs) = 0 THEN <<>>
    ELSE IF Len(strs) = 1 THEN strs[1]
    ELSE strs[1] \o sep \o Join(Tail(strs), sep)

UpperCase == <<"A","B","C","D","E","F","G","H","I","J","K","L","M",
               "N","O","P","Q","R","S","T","U","V","W","X","Y","Z">>
LowerCase == <<"a","b","c","d","e","f","g","h","i","j","k","l","m",
               "n","o","p","q","r","s","t","u","v","w","x","y","z">>

\* String.prototype.toLowerCase(), on the ASCII letters.
ToLowerCase(s) ==
    [i \in 1..Len(s) |->
        IF \E k \in 1..Len(UpperCase) : UpperCase[k] = s[i]
        THEN LowerCase[CHOOSE k \in 1..Len(UpperCase) : UpperCase[k] = s[i]]
        ELSE s[i]]

\* The characters the regular expression class \s matches (the ASCII ones and
\* the no-break space).
WhiteSpace == {" ", "\t", "\n", "\r", "\f", "U+000B", "U+00A0"}

\* content.replace(/\s+/g, '%20'): every maximal run of whitespace becomes %20.
RECURSIVE ReplaceWhiteSpace(_, _)
ReplaceWhiteSpace(s, inRun) ==
    IF Len(s) = 0 THEN <<>>
    ELSE IF Head(s) \in WhiteSpace
         THEN (IF inRun THEN <<>> ELSE <<"%","2","0">>) \o ReplaceWhiteSpace(Tail(s), TRUE)
         ELSE <<Head(s)>> \o ReplaceWhiteSpace(Tail(s), FALSE)

---------------------------------------------------------------------------
(* The view modes and the visibility table. *)

ViewModes == {"developer", "recruiter", "client"}

visibilityMap ==
    [ header          |-> {"developer", "recruiter", "client"},
      description     |-> {"developer", "recruiter", "client"},
      badges          |-> {"developer", "recruiter"},
      installation    |-> {"developer"},
      usage           |-> {"developer", "client"},
      codeblock       |-> {"developer"},
      features        |-> {"developer", "recruiter", "client"},
      screenshot      |-> {"recruiter", "client"},
      demo            |-> {"recruiter", "client"},
      api             |-> {"developer"},
      contributing    |-> {"developer"},
      license         |-> {"developer", "recruiter"},
      contact         |-> {"developer", "recruiter", "client"},
      changelog       |-> {"developer"},
      roadmap         |-> {"developer", "recruiter"},
      acknowledgments |-> {"developer"},
      faq             |-> {"client"},
      support         |-> {"client"},
      sponsors        |-> {"recruiter", "client"},
      stats           |-> {"recruiter"},
      skills          |-> {"recruiter"},
      tech            |-> {"developer", "recruiter"},
      highlights      |-> {"recruiter", "client"},
      branding        |-> {"client"},
      banner          |-> {"client", "recruiter"},
      logo            |-> {"client", "recruiter"} ]

\* A faulty variant of Allowed: a kind absent from the table is shown to developers only.
AllowedUnknownDeveloperOnly(type) ==
    IF type \in DOMAIN visibilityMap THEN visibilityMap[type] ELSE {"developer"}

\* visibilityMap[element.type] || ['developer', 'recruiter', 'client']
\* (element.type ranges over the kinds of the ElementType union; none of them names
\* a property that a JavaScript object inherits.)
Allowed(type) ==
    IF type \in DOMAIN visibilityMap
    THEN visibilityMap[type]
    ELSE {"developer", "recruiter", "client"}

\* A faulty variant of Filter: the callback also drops the element at index 0.
FilterSkipFirst(list, mode) ==
    SelectSeq(IF Len(list) = 0 THEN list ELSE Tail(list),
              LAMBDA element : mode \in Allowed(element.type))

\* elements.filter((element) => allowed.includes(viewMode))
Filter(list, mode) ==
    SelectSeq(list, LAMBDA element : mode \in Allowed(element.type))

\* useMemo(..., [elements, viewMode])
filteredElements == Filter(elements, viewMode)

---------------------------------------------------------------------------
(* The markdown templates. *)

\* `| ${cells.join(' | ')} |`
TableRow(cells) == <<"|"," ">> \o Join(cells, <<" ","|"," ">>) \o <<" ","|">>

\* A faulty variant of TableSeparator: a fixed separator of three dash cells.
TableSeparatorFixed(headers) ==
    TableRow(<< <<"-","-","-">>, <<"-","-","-">>, <<"-","-","-">> >>)

\* `| ${element.headers.map(() => '---').join(' | ')} |`
TableSeparator(headers) ==
    TableRow([i \in 1..Len(headers) |-> <<"-","-","-">>])

\* `${headers}\n${separator}\n${rows}\n\n`
TableMarkdown(element) ==
    TableRow(element.headers) \o <<"\n">>
    \o TableSeparator(element.headers) \o <<"\n">>
    \o Join([i \in 1..Len(element.rows) |-> TableRow(element.rows[i])], <<"\n">>)
    \o <<"\n","\n">>

\* A faulty variant of DividerMarkdown: every divider is the horizontal rule.
DividerAlwaysRule(element) == <<"-","-","-","\n","\n">>

\* switch (element.dividerStyle)
DividerMarkdown(element) ==
    IF "dividerStyle" \in DOMAIN element /\ element.dividerStyle = "dots"
    THEN <<"<","d","i","v"," ","a","l","i","g","n","=","\"","c","e","n","t","e","r","\"",">",
           "U+2022"," ","U+2022"," ","U+2022","<","/","d","i","v",">","\n","\n">>
    ELSE IF "dividerStyle" \in DOMAIN element /\ element.dividerStyle = "stars"
    THEN <<"<","d","i","v"," ","a","l","i","g","n","=","\"","c","e","n","t","e","r","\"",">",
           "U+2B50"," ","U+2B50"," ","U+2B50","<","/","d","i","v",">","\n","\n">>
    ELSE <<"-","-","-","\n","\n">>

\* "## <high voltage> Tech Stack\n\n"
TechStackHeading ==
    <<"#","#"," ","U+26A1"," ","T","e","c","h"," ","S","t","a","c","k","\n","\n">>

\* `![${tech}](https://img.shields.io/badge/-${tech}-05122A?style=flat&logo=${tech.toLowerCase()})`
TechBadge(tech) ==
    <<"!","[">> \o tech
    \o <<"]","(","h","t","t","p","s",":","/","/","i","m","g",".","s","h","i","e","l","d","s",
         ".","i","o","/","b","a","d","g","e","/","-">>
    \o tech
    \o <<"-","0","5","1","2","2","A","?","s","t","y","l","e","=","f","l","a","t","&","l","o",
         "g","o","=">>
    \o ToLowerCase(tech) \o <<")">>

\* technologies.reduce(...): rows of three, the last one shorter.
TechRows(technologies) ==
    [r \in 1..((Len(technologies) + 2) \div 3) |->
        SubSeq(technologies, 3 * (r - 1) + 1, Min(3 * r, Len(technologies)))]

\* case 'tech-stack'
TechStackMarkdown(element) ==
    IF element.layout = "badges"
    THEN TechStackHeading
         \o Join([i \in 1..Len(element.technologies) |-> TechBadge(element.technologies[i])],
                 <<" ">>)
         \o <<"\n","\n">>
    ELSE IF element.layout = "list"
    THEN TechStackHeading
         \o Join([i \in 1..Len(element.technologies) |-> <<"-"," ">> \o element.technologies[i]],
                 <<"\n">>)
         \o <<"\n","\n">>
    ELSE TechStackHeading
         \o <<"|"," ","|"," ","|"," ","|","\n","|","-","-","-","|","-","-","-","|","-","-","-",
              "|","\n">>
         \o Join([r \in 1..Len(TechRows(element.technologies)) |->
                     TableRow(TechRows(element.technologies)[r])], <<"\n">>)
         \o <<"\n","\n">>

\* case 'git-contribution'
GitContributionMarkdown(element) ==
    <<"#","#"," ","U+1F91D"," ","H","o","w"," ","t","o"," ","C","o","n","t","r","i","b","u","t",
      "e","\n","\n","1","."," ","F","o","r","k"," ","t","h","e"," ","r","e","p","o","s","i","t",
      "o","r","y","\n","2","."," ","C","l","o","n","e"," ","y","o","u","r"," ","f","o","r","k",
      ":"," ","U+0060","g","i","t"," ","c","l","o","n","e"," ","h","t","t","p","s",":","/","/",
      "g","i","t","h","u","b",".","c","o","m","/">>
    \o element.username \o <<"/">> \o element.repository
    \o <<".","g","i","t","U+0060","\n","3","."," ","C","r","e","a","t","e"," ","a"," ","f","e","a",
         "t","u","r","e"," ","b","r","a","n","c","h",":"," ","U+0060","g","i","t"," ","c","h","e",
         "c","k","o","u","t"," ","-","b"," ","f","e","a","t","u","r","e","-","n","a","m","e",
         "U+0060","\n","4","."," ","M","a","k","e"," ","y","o","u","r"," ","c","h","a","n","g","e",
         "s"," ","a","n","d"," ","c","o","m","m","i","t",":"," ","U+0060","g","i","t"," ","c","o",
         "m","m","i","t"," ","-","m"," ","\"","A","d","d"," ","f","e","a","t","u","r","e","\"",
         "U+0060","\n","5","."," ","P","u","s","h"," ","t","o"," ","y","o","u","r"," ","f","o","r",
         "k",":"," ","U+0060","g","i","t"," ","p","u","s","h"," ","o","r","i","g","i","n"," ","f",
         "e","a","t","u","r","e","-","n","a","m","e","U+0060","\n","6","."," ","C","r","e","a","t",
         "e"," ","a"," ","P","u","l","l"," ","R","e","q","u","e","s","t","\n","\n">>

\* A faulty variant of DefaultMarkdown: a kind without a template is printed like 'text'.
DefaultMarkdownAsText(element) == element.content \o <<"\n","\n">>

\* default: return '';
DefaultMarkdown(element) == <<>>

\* The callback of filteredElements.map: switch (element.type).
ElementMarkdown(element) ==
    CASE element.type = "header" ->
            <<"#"," ">> \o element.content \o <<"\n","\n">>
      [] element.type = "text" ->
            element.content \o <<"\n","\n">>
      [] element.type = "banner" ->
            <<"<","d","i","v"," ","a","l","i","g","n","=","\"","c","e","n","t","e","r","\"",">",
              "\n"," "," ","<","h","1",">">>
            \o element.content
            \o <<"<","/","h","1",">","\n","<","/","d","i","v",">","\n","\n">>
      [] element.type = "git-contribution" -> GitContributionMarkdown(element)
      [] element.type = "tech-stack" -> TechStackMarkdown(element)
      [] element.type = "image" ->
            <<"!","[">> \o element.alt \o <<"]","(">> \o element.src \o <<")","\n","\n">>
      [] element.type = "code-block" ->
            <<"U+0060","U+0060","U+0060">>
            \o (IF "language" \in DOMAIN element /\ element.language # <<>>
                THEN element.language
                ELSE <<"j","a","v","a","s","c","r","i","p","t">>)
            \o <<"\n">> \o element.content
            \o <<"\n","U+0060","U+0060","U+0060","\n","\n">>
      [] element.type = "badge" ->
            <<"!","[">> \o element.content
            \o <<"]","(","h","t","t","p","s",":","/","/","i","m","g",".","s","h","i","e","l","d",
                 "s",".","i","o","/","b","a","d","g","e","/","-">>
            \o ReplaceWhiteSpace(element.content, FALSE)
            \o <<"-","b","r","i","g","h","t","g","r","e","e","n",")","\n","\n">>
      [] element.type = "table" -> TableMarkdown(element)
      [] element.type = "divider" -> DividerMarkdown(element)
      [] element.type = "installation" ->
            <<"#","#"," ","I","n","s","t","a","l","l","a","t","i","o","n","\n","\n",
              "U+0060","U+0060","U+0060","b","a","s","h","\n">>
            \o element.content
            \o <<"\n","U+0060","U+0060","U+0060","\n","\n">>
      [] OTHER -> DefaultMarkdown(element)

\* list.map(ElementMarkdown).join('')
MarkdownOf(list) == Join([i \in 1..Len(list) |-> ElementMarkdown(list[i])], <<>>)

\* A faulty variant of generateMarkdown: it maps the unfiltered elements.
generateMarkdownUnfiltered == MarkdownOf(elements)

\* const generateMarkdown = (): string => filteredElements.map(...).join('')
generateMarkdown == MarkdownOf(filteredElements)

---------------------------------------------------------------------------
(* What the component renders from its props and state. *)

\* A faulty variant of CopyDisabled: the button is disabled only when no element was passed.
CopyDisabledOnRawElements == Len(elements) = 0

\* <Button onClick={copyToClipboard} disabled={!filteredElements.length}>
CopyDisabled == Len(filteredElements) = 0

\* <Button onClick={downloadMarkdown} disabled={!filteredElements.length}>
DownloadDisabled == Len(filteredElements) = 0

\* {copied && <span>Copied!</span>}
CopiedShown == copied

\* The "Your README is empty" block: the filteredElements.length === 0 branch inside
\* <TabsContent value="preview">, which is rendered while that tab is selected.
PlaceholderShown == activeTab = "preview" /\ Len(filteredElements) = 0

\* <TabsContent value="markdown">, rendered while that tab is selected.
MarkdownShown == activeTab = "markdown"

\* {generateMarkdown()}
MarkdownTabContent == generateMarkdown

---------------------------------------------------------------------------
(* The inputs: elements of every kind the templates and the table name. *)

Digit(i) == <<"0","1","2","3","4","5","6","7","8","9">>[i + 1]

\* A table element with n header columns and k data rows of n cells.
TableElement(n, k) ==
    [ type    |-> "table",
      headers |-> [j \in 1..n |-> <<"h", Digit(j)>>],
      rows    |-> [i \in 1..k |-> [j \in 1..n |-> <<"r", Digit(i), Digit(j)>>]] ]

Tables == { TableElement(n, k) : n \in 0..MaxCols, k \in 0..MaxRows }

Header == [type |-> "header", content |-> <<"T">>]
Installation == [type |-> "installation", content |-> <<"n","p","m"," ","i">>]
Banner == [type |-> "banner", content |-> <<"B">>]

Technologies == << <<"G","o">>, <<"T","S">>, <<"C">>, <<"R">> >>

\* Kinds with a markdown template.
Templated ==
    { Header, Installation, Banner,
      [type |-> "text", content |-> <<"x"," ","y">>],
      [type |-> "git-contribution", username |-> <<"u">>, repository |-> <<"r">>],
      [type |-> "tech-stack", layout |-> "badges", technologies |-> Technologies],
      [type |-> "tech-stack", layout |-> "list", technologies |-> Technologies],
      [type |-> "tech-stack", layout |-> "grid", technologies |-> Technologies],
      [type |-> "image", alt |-> <<"a">>, src |-> <<"s",".","p","n","g">>],
      [type |-> "code-block", language |-> <<"p","y">>, content |-> <<"p">>],
      [type |-> "code-block", content |-> <<"q">>],
      [type |-> "badge", content |-> <<"a"," "," ","b","\t","c">>],
      [type |-> "divider", dividerStyle |-> "dots"],
      [type |-> "divider", dividerStyle |-> "stars"],
      [type |-> "divider", dividerStyle |-> "line"],
      [type |-> "divider"] } \cup Tables

\* Kinds without a template: two the table names, one it does not.
Untemplated ==
    { [type |-> "badges", content |-> <<"b">>],
      [type |-> "faq", content |-> <<"f">>],
      [type |-> "custom", content |-> <<"c">>] }

Pool == Templated \cup Untemplated

UiPool == { Header, Installation, Banner }

\* The element's id is its position in the list: ids are unique.
WithIds(list) == [i \in 1..Len(list) |-> [id |-> i] @@ list[i]]

ListsOver(S, maxLen) == { WithIds(l) : l \in UNION { [1..n -> S] : n \in 0..maxLen } }

FnLists == ListsOver(Pool, MaxElems)

UiLists == ListsOver(UiPool, MaxUiElems)

---------------------------------------------------------------------------
(* The state machine. *)

NoEffect == [op |-> "none", text |-> <<>>, name |-> "", mime |-> ""]

\* The browser's report of a rejected promise that no handler caught.
Unhandled == [op |-> "unhandledrejection", text |-> <<>>, name |-> "", mime |-> ""]

\* The component as mounted: useState(false), <Tabs defaultValue="preview">.
Mounted ==
    /\ viewMode \in ViewModes
    /\ activeTab = "preview"
    /\ copied = FALSE
    /\ timers = 0
    /\ pendingWrites = 0
    /\ emitted = NoEffect

Init == elements \in UiLists /\ Mounted

FnInit == elements \in FnLists /\ Mounted

\* The host renders the component again with new props.
SetProps(newElements, newMode) ==
    /\ elements' = newElements
    /\ viewMode' = newMode
    /\ emitted' = NoEffect
    /\ UNCHANGED <<activeTab, copied, timers, pendingWrites>>

\* A click on a <TabsTrigger>.
SelectTab(tab) ==
    /\ activeTab' = tab
    /\ emitted' = NoEffect
    /\ UNCHANGED <<elements, viewMode, copied, timers, pendingWrites>>

\* copyToClipboard up to its await: the markdown is handed to the clipboard.
copyToClipboard ==
    /\ ~CopyDisabled
    /\ pendingWrites < MaxWrites
    /\ pendingWrites' = pendingWrites + 1
    /\ emitted' = [op |-> "writeText", text |-> generateMarkdown, name |-> "", mime |-> ""]
    /\ UNCHANGED <<elements, viewMode, activeTab, copied, timers>>

\* A faulty variant of WriteResolved: the flag is set but no reset timer is scheduled.
WriteResolvedNoTimer ==
    /\ pendingWrites > 0
    /\ timers < MaxTimers
    /\ pendingWrites' = pendingWrites - 1
    /\ copied' = TRUE
    /\ emitted' = NoEffect
    /\ UNCHANGED <<elements, viewMode, activeTab, timers>>

\* The writeText promise fulfils: copyToClipboard resumes after its await.
WriteResolved ==
    /\ pendingWrites > 0
    /\ timers < MaxTimers
    /\ pendingWrites' = pendingWrites - 1
    /\ copied' = TRUE
    /\ timers' = timers + 1
    /\ emitted' = NoEffect
    /\ UNCHANGED <<elements, viewMode, activeTab>>

\* A faulty variant of WriteRejected: the acknowledgment runs whether or not the write worked.
WriteRejectedStillAcknowledges ==
    /\ pendingWrites > 0
    /\ timers < MaxTimers
    /\ pendingWrites' = pendingWrites - 1
    /\ copied' = TRUE
    /\ timers' = timers + 1
    /\ emitted' = Unhandled
    /\ UNCHANGED <<elements, viewMode, activeTab>>

\* The writeText promise rejects: the await throws, the rest is skipped and the
\* promise of the async handler rejects with nobody handling it.
WriteRejected ==
    /\ pendingWrites > 0
    /\ pendingWrites' = pendingWrites - 1
    /\ emitted' = Unhandled
    /\ UNCHANGED <<elements, viewMode, activeTab, copied, timers>>

\* A reset timer fires: setCopied(false).
TimerFired ==
    /\ timers > 0
    /\ timers' = timers - 1
    /\ copied' = FALSE
    /\ emitted' = NoEffect
    /\ UNCHANGED <<elements, viewMode, activeTab, pendingWrites>>

\* downloadMarkdown: a Blob of the markdown, saved through a temporary <a download>.
downloadMarkdown ==
    /\ ~DownloadDisabled
    /\ emitted' = [op |-> "download", text |-> generateMarkdown,
                   name |-> "README.md", mime |-> "text/markdown"]
    /\ UNCHANGED <<elements, viewMode, activeTab, copied, timers, pendingWrites>>

Next ==
    \/ \E newElements \in UiLists, newMode \in ViewModes : SetProps(newElements, newMode)
    \/ \E tab \in {"preview", "markdown"} : SelectTab(tab)
    \/ copyToClipboard
    \/ WriteResolved
    \/ WriteRejected
    \/ TimerFired
    \/ downloadMarkdown

Spec == Init /\ [][Next]_vars

\* The event loop runs a timer's callback once its delay has passed.
FairSpec == Spec /\ WF_vars(TimerFired)

\* The pure functions on every input: the props are fixed at mount, and the step is
\* the synchronous use of filteredElements and generateMarkdown by a download.
FnNext == downloadMarkdown

FnSpec == FnInit /\ [][FnNext]_vars

---------------------------------------------------------------------------
(* The properties.  Their helpers are written from the statements, not from *)
(* the operators above.                                                     *)

\* What the visibility table says of an element: its kind maps to a set holding the
\* mode, or its kind is absent from the table.
VisibleByTable(element, mode) ==
    \/ element.type \in DOMAIN visibilityMap /\ mode \in visibilityMap[element.type]
    \/ element.type \notin DOMAIN visibilityMap

SomeElementVisible == \E i \in 1..Len(elements) : VisibleByTable(elements[i], viewMode)

\* C1: the visibility filter returns exactly the elements whose kind the table maps
\* to a set containing the current mode, plus those whose kind is absent from the
\* table, in the order of the input, nothing added and nothing twice.  (An element's
\* id is its position in the input.)
C1_FilterKeepsExactlyVisibleInOrder ==
    LET f == filteredElements
        keep == { i \in 1..Len(elements) : VisibleByTable(elements[i], viewMode) }
    IN  /\ Len(f) = Cardinality(keep)
        /\ \A j \in 1..Len(f) : f[j].id \in keep /\ f[j] = elements[f[j].id]
        /\ \A j \in 1..(Len(f) - 1) : f[j].id < f[j + 1].id

\* C1 witness: a two-element list of which the filter hides one and keeps one of a
\* kind the table does not name, and whose markdown has been downloaded.
C1_Witness ==
    /\ emitted.op = "download"
    /\ Len(elements) = 2
    /\ Len(filteredElements) = 1
    /\ filteredElements[1].type \notin DOMAIN visibilityMap
    /\ filteredElements[1].id = 2

\* C2: filtering is idempotent: for every mode, filtering a list already filtered
\* with that mode returns it unchanged.
C2_FilterIdempotent ==
    \A mode \in ViewModes :
        Filter(Filter(elements, mode), mode) = Filter(elements, mode)

\* C2 witness: a list the filter shortens without emptying, downloaded as the
\* markdown of what is left.
C2_Witness ==
    /\ emitted.op = "download"
    /\ emitted.text = MarkdownOf(Filter(Filter(elements, viewMode), viewMode))
    /\ Len(Filter(elements, viewMode)) > 0
    /\ Len(Filter(elements, viewMode)) < Len(elements)

\* The concatenation, in list order, of the template output of every element the
\* table makes visible; a hidden element contributes nothing.
RECURSIVE VisibleConcat(_, _)
VisibleConcat(list, mode) ==
    IF Len(list) = 0 THEN <<>>
    ELSE VisibleConcat(SubSeq(list, 1, Len(list) - 1), mode)
         \o (IF VisibleByTable(list[Len(list)], mode)
             THEN ElementMarkdown(list[Len(list)])
             ELSE <<>>)

\* C3: the markdown that is displayed, copied or downloaded is the concatenation, in
\* list order, of one template output per element that is visible in the current
\* mode; hidden elements contribute nothing.
C3_MarkdownIsConcatOfVisible ==
    /\ MarkdownShown => MarkdownTabContent = VisibleConcat(elements, viewMode)
    /\ emitted.op \in {"writeText", "download"}
          => emitted.text = VisibleConcat(elements, viewMode)

\* C3 witness: in recruiter mode an installation element precedes a header, and the
\* text handed to the clipboard is the header's markdown alone.
C3_Witness ==
    /\ viewMode = "recruiter"
    /\ Len(elements) = 2
    /\ elements[1].type = "installation"
    /\ elements[2].type = "header"
    /\ emitted.op = "writeText"
    /\ emitted.text = <<"#"," ","T","\n","\n">>

\* text.split(sep), for a one-character sep: the pieces between the places of sep.
Split(text, sep) ==
    LET places == { i \in 1..Len(text) : text[i] = sep }
        place(j) == IF j = 0 THEN 0
                    ELSE IF j = Cardinality(places) + 1 THEN Len(text) + 1
                    ELSE CHOOSE p \in places : Cardinality({ q \in places : q < p }) = j - 1
    IN  [j \in 1..(Cardinality(places) + 1) |->
            SubSeq(text, place(j - 1) + 1, place(j) - 1)]

\* A table row of the given cells: "| c1 | c2 | ... | cn |".
RECURSIVE RowCells(_)
RowCells(cells) ==
    IF Len(cells) = 0 THEN <<>>
    ELSE IF Len(cells) = 1 THEN cells[1]
    ELSE RowCells(SubSeq(cells, 1, Len(cells) - 1)) \o <<" ","|"," ">> \o cells[Len(cells)]

RowOf(cells) == <<"|"," ">> \o RowCells(cells) \o <<" ","|">>

DashCells(n) == [j \in 1..n |-> <<"-","-","-">>]

\* The text is a header row of the headers, a separator row of as many dash cells as
\* there are headers, the data rows in their order, and ends with a blank line.
IsTableText(text, headers, rows) ==
    LET lines == Split(text, "\n")
        k == Len(rows)
    IN  /\ Len(lines) >= k + 4
        /\ lines[1] = RowOf(headers)
        /\ lines[2] = RowOf(DashCells(Len(headers)))
        /\ \A i \in 1..k : lines[2 + i] = RowOf(rows[i])
        /\ \A i \in (k + 3)..Len(lines) : lines[i] = <<>>

\* C5: a table element yields its header row, then a separator row with exactly as
\* many '---' cells as there are headers, then its data rows in input order, then a
\* blank line.
C5_TableText ==
    /\ \A i \in 1..Len(elements) :
          elements[i].type = "table"
             => IsTableText(ElementMarkdown(elements[i]),
                            elements[i].headers, elements[i].rows)
    /\ (Len(elements) = 1 /\ elements[1].type = "table" /\ emitted.op = "download")
          => IsTableText(emitted.text, elements[1].headers, elements[1].rows)

\* C5 witness: a table of two columns and two rows has been downloaded.
C5_Witness ==
    /\ Len(elements) = 1
    /\ elements[1].type = "table"
    /\ Len(elements[1].headers) = 2
    /\ Len(elements[1].rows) = 2
    /\ emitted.op = "download"
    /\ Len(Split(emitted.text, "\n")) = 6

DotsText ==
    <<"<","d","i","v"," ","a","l","i","g","n","=","\"","c","e","n","t","e","r","\"",">",
      "U+2022"," ","U+2022"," ","U+2022","<","/","d","i","v",">","\n","\n">>

RuleText == <<"-","-","-","\n","\n">>

HasStyle(element, style) ==
    "dividerStyle" \in DOMAIN element /\ element.dividerStyle = style

\* C6: a divider of style "dots" yields exactly <div align="center">(bullet) (bullet)
\* (bullet)</div>\n\n; a divider of the default style yields exactly ---\n\n.
C6_DividerText ==
    /\ \A i \in 1..Len(elements) :
          elements[i].type = "divider" =>
             /\ HasStyle(elements[i], "dots") => ElementMarkdown(elements[i]) = DotsText
             /\ (~HasStyle(elements[i], "dots") /\ ~HasStyle(elements[i], "stars"))
                   => ElementMarkdown(elements[i]) = RuleText
    /\ (Len(elements) = 1 /\ elements[1].type = "divider" /\ emitted.op = "download")
          => /\ HasStyle(elements[1], "dots") => emitted.text = DotsText
             /\ (~HasStyle(elements[1], "dots") /\ ~HasStyle(elements[1], "stars"))
                   => emitted.text = RuleText

\* C6 witness: a lone dots divider has been downloaded as the dots text.
C6_Witness ==
    /\ Len(elements) = 1
    /\ elements[1].type = "divider"
    /\ HasStyle(elements[1], "dots")
    /\ emitted.op = "download"
    /\ emitted.text = DotsText

\* The kinds the markdown generator has a template for.
TemplateKinds ==
    { "header", "text", "banner", "git-contribution", "tech-stack", "image",
      "code-block", "badge", "table", "divider", "installation" }

WithoutUntemplated(list) == SelectSeq(list, LAMBDA element : element.type \in TemplateKinds)

\* C7: an element whose kind has no template contributes the empty string: the
\* markdown is the same as with those elements removed, although those of them that
\* pass the filter count as visible (they enable Copy and Download).
C7_UntemplatedContributeNothing ==
    /\ generateMarkdown = MarkdownOf(Filter(WithoutUntemplated(elements), viewMode))
    /\ (emitted.op = "download" /\ WithoutUntemplated(elements) = <<>>)
          => emitted.text = <<>>
    /\ (\E i \in 1..Len(elements) :
           elements[i].type \notin TemplateKinds /\ VisibleByTable(elements[i], viewMode))
          => ~CopyDisabled /\ ~DownloadDisabled

\* C7 witness: a list of only untemplated elements has been downloaded, as nothing.
C7_Witness ==
    /\ Len(elements) = 2
    /\ \A i \in 1..Len(elements) : elements[i].type \notin TemplateKinds
    /\ Len(filteredElements) = 2
    /\ emitted.op = "download"
    /\ emitted.text = <<>>

\* C8: the 'copied' flag is false initially, becomes true only when a clipboard
\* write completes, is true only while a reset timer is pending, and whenever it is
\* true it later returns to false: it never stays true forever.
C8_CopiedIsTransient ==
    /\ ~copied
    /\ [][(~copied /\ copied') => WriteResolved]_vars
    /\ [][WriteResolved => copied']_vars
    /\ [](copied => timers > 0)
    /\ (copied ~> ~copied)

\* C8 witness: a second copy completed while the first one's timer was pending.
C8_Witness == copied /\ timers >= 2

\* C9: the flag is set only by a write that succeeded; a failed write leaves the flag
\* as it was and schedules no timer; a download never changes the flag.
C9_FlagOnlyAfterSuccess ==
    /\ [][(~copied /\ copied') =>
             (pendingWrites' = pendingWrites - 1 /\ emitted'.op = "none")]_vars
    /\ [][(emitted'.op = "unhandledrejection" /\ pendingWrites' # pendingWrites)
             => (copied' = copied /\ timers' = timers)]_vars
    /\ [][emitted'.op = "download" => copied' = copied]_vars

\* C9 witness: a write has just failed, with no flag and no timer.
C9_Witness ==
    /\ emitted.op = "unhandledrejection"
    /\ ~copied
    /\ timers = 0
    /\ pendingWrites = 0

\* C10 as stated: Copy and Download are enabled exactly when an element is visible in
\* the current mode, and the empty-state placeholder is shown exactly when both are
\* disabled.
C10_Original ==
    /\ ~CopyDisabled <=> SomeElementVisible
    /\ ~DownloadDisabled <=> SomeElementVisible
    /\ PlaceholderShown <=> (CopyDisabled /\ DownloadDisabled)

\* C10 amended: Copy and Download are enabled exactly when an element is visible in
\* the current mode, neither a clipboard write nor a download is started while none
\* is, and the empty-state placeholder is shown exactly when both are disabled and
\* the Visual Preview tab is the selected one.
C10_Amended ==
    /\ [](~CopyDisabled <=> SomeElementVisible)
    /\ [](~DownloadDisabled <=> SomeElementVisible)
    /\ [](PlaceholderShown <=> (CopyDisabled /\ DownloadDisabled /\ activeTab = "preview"))
    /\ [][(emitted'.op \in {"writeText", "download"} /\ emitted' # emitted)
             => SomeElementVisible]_vars

\* C10 witness: on the Markdown Code tab with elements that are all hidden, both
\* buttons are disabled and no placeholder is shown.
C10_Witness ==
    /\ activeTab = "markdown"
    /\ Len(elements) > 0
    /\ CopyDisabled
    /\ DownloadDisabled
    /\ ~PlaceholderShown

=============================================================================
